---- MODULE Spec2Model ----
(***************************************************************************)
(* Model of app.py, the Streamlit movie recommender.                       *)
(*                                                                         *)
(* Streamlit runs the whole script top to bottom on every interaction, so  *)
(* one script run (artifact bootstrap, artifact load, then the handler of  *)
(* the button that was clicked) is one action.  The two st.cache_data      *)
(* caches and the local artifact files outlive a run; everything else is   *)
(* rebuilt by each run.                                                    *)
(*                                                                         *)
(* Positions, row numbers and pandas index labels are 0-based naturals as  *)
(* in the source; TLA+ sequences are 1-based, so position p of a list is   *)
(* element p + 1 of the sequence that models it.                           *)
(***************************************************************************)
EXTENDS Integers, Sequences, FiniteSets, TLC

\* ---------------------------------------------------------------- constants
TOP_K == 5
RETRY_TOTAL == 3
HTTP_OK == 200     \* a response raise_for_status() accepts
NETERR == 0        \* no response: connection error or timeout
STATUS_FORCELIST == {429, 500, 502, 503, 504}
GENRES == {28, 12}      \* Action and Adventure, two of the seventeen genres

\* ------------------------------------------------------------------- bounds
MaxN == 7          \* largest catalog (TOP_K + 2, so that truncation happens)
MaxSeed == 2       \* similarity matrices are drawn from seeds 0..MaxSeed
MaxFails == 4      \* a service plan fails at most this many attempts in a row
MaxPageLen == 3    \* a discover page holds at most this many results
PosterTTL == 2     \* poster cache time-to-live, in clock ticks
GenreTTL == 1      \* genre cache time-to-live, in clock ticks

\* ------------------------------------------------------------------ helpers
Min(a, b) == IF a < b THEN a ELSE b

\* s[:n]
Take(s, n) == SubSeq(s, 1, Min(n, Len(s)))

Last(s) == s[Len(s)]

\* Python values that cross a function boundary are tagged records.
NoneV == [tag |-> "None"]                      \* None
RaisedV == [tag |-> "raised"]                  \* an exception left the callee
UrlV(id) == [tag |-> "url", id |-> id]         \* f"{POSTER_BASE}{poster_path}"
ListV(items) == [tag |-> "list", items |-> items]
Miss == [tag |-> "miss"]                       \* no cache entry

\* ------------------------------------------------------- catalog and matrix
\* The DataFrame built from movie_dict.pkl: index labels, the title column and
\* the identifier column (named movie_id or id, or absent), all in row order.
\* gapAt is the position before which one row was dropped when the artifact was
\* built without resetting the index; gapAt = n gives the labels 0..n-1.
\* Catalogs below always holds the catalogs with the labels 0..n-1.
\* dup is the period of the titles: titles repeat when dup < n.
MakeCatalog(n, dup, gapAt, idcol) ==
    [ labels |-> [p \in 1..n |-> IF p - 1 < gapAt THEN p - 1 ELSE p],
      titles |-> [p \in 1..n |-> (p - 1) % dup],
      ids    |-> [p \in 1..n |-> 100 + (p - 1)],
      idcol  |-> idcol ]

\* similarity.pkl: an n x n array of scores (row i, column j, both 0-based).
\* Scores may be negative and are often tied.
MakeSimilarity(n, seed) ==
    [i \in 0..(n - 1) |->
        [j \in 0..(n - 1) |->
            (((seed + 1) * i + (seed + 2) * j + seed * i * j) % (3 + seed)) - 1]]

Titles == 0..MaxN

\* -------------------------------------------------------------- recommend()
\* movies_df.index[movies_df["title"] == selected_title]: the labels of the
\* matching rows, in row order.
RECURSIVE MatchesFrom(_, _, _)
MatchesFrom(df, title, p) ==
    IF p > Len(df.titles) THEN <<>>
    ELSE (IF df.titles[p] = title THEN <<df.labels[p]>> ELSE <<>>)
         \o MatchesFrom(df, title, p + 1)

Matches(df, title) == MatchesFrom(df, title, 1)

\* list(enumerate(similarity_matrix[i_sel]))
Enumerate(row) ==
    [k \in 1..Cardinality(DOMAIN row) |-> <<k - 1, row[k - 1]>>]

\* list.sort(key=lambda x: x[1], reverse=True): a stable sort; with
\* reverse=True elements with equal keys keep their original relative order.
RECURSIVE InsertDesc(_, _)
InsertDesc(x, sorted) ==
    IF sorted = <<>> THEN <<x>>
    ELSE IF Head(sorted)[2] >= x[2]
         THEN <<Head(sorted)>> \o InsertDesc(x, Tail(sorted))
         ELSE <<x>> \o sorted

RECURSIVE SortDescFrom(_, _, _)
SortDescFrom(s, k, acc) ==
    IF k > Len(s) THEN acc ELSE SortDescFrom(s, k + 1, InsertDesc(s[k], acc))

SortDesc(s) == SortDescFrom(s, 1, <<>>)

\* [i for i, _ in sims if i != i_sel]
RECURSIVE DropSelf(_, _)
DropSelf(sims, i_sel) ==
    IF sims = <<>> THEN <<>>
    ELSE (IF Head(sims)[1] # i_sel THEN <<Head(sims)[1]>> ELSE <<>>)
         \o DropSelf(Tail(sims), i_sel)

\* i_sel = int(matches[0]): the index LABEL of the first matching row.
SelectedIndex(df, title) == Matches(df, title)[1]

\* similarity_matrix[i_sel] raises IndexError when i_sel is not a row.
RowExists(sim, i_sel) == i_sel \in DOMAIN sim

\* top_idxs, lines 117-119
TopIdxs(sim, i_sel) == Take(DropSelf(SortDesc(Enumerate(sim[i_sel])), i_sel), TOP_K)

\* ------------------------------------------------------- metadata service
\* What the service does during one script run: the next `fails` attempts end
\* in `kind` (a status code, or NETERR), every later attempt is answered with
\* status 200 and a body of shape `body`; a discover page p then holds len[p]
\* results.
FailKinds == {429, 503, 404, NETERR}
Bodies == {"good", "nofield", "nullfield", "jsonnull", "notobject", "badjson"}

Plans ==
    { [fails |-> f, kind |-> k, body |-> b, len |-> <<l1, l2>>] :
        f \in 0..MaxFails, k \in FailKinds, b \in Bodies,
        l1 \in 0..MaxPageLen, l2 \in 0..MaxPageLen }

\* Plans that differ only in a field no attempt reads are one plan; a plan
\* either fails attempts or answers with an odd body, and only a plan that
\* answers at once varies the page lengths.
NormalPlans ==
    { p \in Plans : /\ (p.fails = 0 => p.kind = NETERR)
                    /\ (p.body # "good" => p.fails = 0 /\ p.len = <<0, 0>>)
                    /\ (p.fails > 0 => p.len = <<MaxPageLen, MaxPageLen>>) }

\* fetch_poster reads no page length.
PosterPlans ==
    { p \in NormalPlans : p.body = "good" => p.len = <<MaxPageLen, MaxPageLen>> }

Healthy == [fails |-> 0, kind |-> NETERR, body |-> "good", len |-> <<MaxPageLen, MaxPageLen>>]

\* Retry(total=3, status_forcelist=[...]): a connection error, a timeout or a
\* response whose status is in the forcelist is retried while retries remain.
Retryable(outcome) == outcome = NETERR \/ outcome \in STATUS_FORCELIST

\* SESSION.get(...): the outcomes of the attempts of one call, in order.
RECURSIVE Attempts(_, _, _)
Attempts(fails, kind, retriesLeft) ==
    IF fails = 0 THEN <<HTTP_OK>>
    ELSE IF Retryable(kind) /\ retriesLeft > 0
         THEN <<kind>> \o Attempts(fails - 1, kind, retriesLeft - 1)
         ELSE <<kind>>

\* A session configured with one retry more.
SessionGet_OneMoreRetry(fails, kind) == Attempts(fails, kind, RETRY_TOTAL + 1)

SessionGet(fails, kind) == Attempts(fails, kind, RETRY_TOTAL)

\* The failures one call used up.
Consumed(outcomes) == IF Last(outcomes) = HTTP_OK THEN Len(outcomes) - 1 ELSE Len(outcomes)

\* Lines 102-106: what fetch_poster makes of the call.  A failed call ends in
\* a requests.RequestException (ConnectionError, Timeout, RetryError, HTTPError)
\* and so does a body that is not JSON; a JSON value that is no object has no
\* .get and the AttributeError is not caught.
PosterResult(outcomes, body, movie_id) ==
    IF Last(outcomes) # HTTP_OK THEN NoneV
    ELSE CASE body = "good" -> UrlV(movie_id)
           [] body \in {"nofield", "nullfield", "badjson"} -> NoneV
           [] OTHER -> RaisedV

\* Lines 177-181: `r.json() or {}` turns a null body into {}, a missing
\* "results" gives [], a null "results" is returned as it is.
GenreResult(outcomes, plan, genre_id, page) ==
    IF Last(outcomes) # HTTP_OK THEN ListV(<<>>)
    ELSE CASE plan.body = "good" ->
                ListV([k \in 1..plan.len[page] |-> <<genre_id, page, k>>])
           [] plan.body \in {"nofield", "jsonnull", "badjson"} -> ListV(<<>>)
           [] plan.body = "nullfield" -> NoneV
           [] OTHER -> RaisedV

\* The body of fetch_poster / fetch_by_genre, without the cache decorator:
\* the value returned and the attempts made.  Without a credential no call
\* is made.
PosterReply(outcomes, body, movie_id) ==
    [val |-> PosterResult(outcomes, body, movie_id), outcomes |-> outcomes]

FetchPosterBody(key, plan, fails, movie_id) ==
    IF ~key THEN [val |-> NoneV, outcomes |-> <<>>]
    ELSE PosterReply(SessionGet(fails, plan.kind), plan.body, movie_id)

GenreReply(outcomes, plan, genre_id, page) ==
    [val |-> GenreResult(outcomes, plan, genre_id, page), outcomes |-> outcomes]

FetchByGenreBody(key, plan, fails, genre_id, page) ==
    IF ~key THEN [val |-> ListV(<<>>), outcomes |-> <<>>]
    ELSE GenreReply(SessionGet(fails, plan.kind), plan, genre_id, page)

\* ---------------------------------------------------------- st.cache_data
\* An entry is Miss or [tag |-> "hit", val, age]; a value is stored when the
\* function returns and is served until its age reaches the time-to-live.
\* A call that raises stores nothing.
Entry(val) == [tag |-> "hit", val |-> val, age |-> 0]

IsHit(entry) == entry.tag = "hit"

\* One cached call threaded through a run: rs holds the failures the plan
\* has left, both caches and the log of calls made so far.  `fetched` is what
\* the function body returns now; on a hit the body is not run.
CachedCall(rs, fn, arg, entry, fetched) ==
    [val   |-> IF IsHit(entry) THEN entry.val ELSE fetched.val,
     store |-> ~IsHit(entry) /\ fetched.val # RaisedV,
     fails |-> IF IsHit(entry) \/ fetched.outcomes = <<>> THEN rs.fails
               ELSE rs.fails - Consumed(fetched.outcomes),
     calls |-> Append(rs.calls,
                  [fn |-> fn, arg |-> arg, hit |-> IsHit(entry),
                   outcomes |-> IF IsHit(entry) THEN <<>> ELSE fetched.outcomes,
                   result |-> IF IsHit(entry) THEN entry.val ELSE fetched.val,
                   fresh |-> fetched.val])]

StorePoster(rs, movie_id, c) ==
    [val |-> c.val,
     rs  |-> [rs EXCEPT !.fails = c.fails, !.calls = c.calls,
                        !.posters[movie_id] = IF c.store THEN Entry(c.val) ELSE @]]

fetch_poster(rs, key, plan, movie_id) ==
    StorePoster(rs, movie_id,
        CachedCall(rs, "fetch_poster", <<movie_id>>, rs.posters[movie_id],
                   FetchPosterBody(key, plan, rs.fails, movie_id)))

StoreGenre(rs, k, c) ==
    [val |-> c.val,
     rs  |-> [rs EXCEPT !.fails = c.fails, !.calls = c.calls,
                        !.genres[k] = IF c.store THEN Entry(c.val) ELSE @]]

fetch_by_genre(rs, key, plan, genre_id, page) ==
    StoreGenre(rs, <<genre_id, page>>,
        CachedCall(rs, "fetch_by_genre", <<genre_id, page>>, rs.genres[<<genre_id, page>>],
                   FetchByGenreBody(key, plan, rs.fails, genre_id, page)))

\* ------------------------------------------------------- recommend(), whole
\* id_col, line 121
HasIdCol(df) == df.idcol \in {"movie_id", "id"}

\* One pass of the loop of lines 124-133 for top index i; f is what
\* fetch_poster gives for the row's identifier.  movies_df.iloc[i] is the row
\* at POSITION i.  An exception of fetch_poster leaves recommend.
RecStep(df, i, acc, f) ==
    IF ~HasIdCol(df)
    THEN [acc EXCEPT !.names = Append(@, df.titles[i + 1]),
                     !.ids = Append(@, -1),
                     !.posters = Append(@, NoneV)]
    ELSE IF f.val = RaisedV
    THEN [acc EXCEPT !.raised = TRUE, !.rs = f.rs]
    ELSE [acc EXCEPT !.names = Append(@, df.titles[i + 1]),
                     !.ids = Append(@, df.ids[i + 1]),
                     !.posters = Append(@, f.val),
                     !.rs = f.rs]

RECURSIVE RecLoop(_, _, _, _, _, _)
RecLoop(df, top_idxs, k, key, plan, acc) ==
    IF k > Len(top_idxs) \/ acc.raised THEN acc
    ELSE RecLoop(df, top_idxs, k + 1, key, plan,
            RecStep(df, top_idxs[k], acc,
                    fetch_poster(acc.rs, key, plan, df.ids[top_idxs[k] + 1])))

NoOutput(rs) ==
    [names |-> <<>>, posters |-> <<>>, ids |-> <<>>, raised |-> FALSE,
     simRead |-> FALSE, i_sel |-> -1, top |-> <<>>, rs |-> rs]

\* What a call that raised hands back: nothing.
Returned(out) ==
    IF out.raised THEN [out EXCEPT !.names = <<>>, !.posters = <<>>, !.ids = <<>>]
    ELSE out

\* Lines 121-134, with top_idxs computed.
Collect(rs, key, plan, movies_df, i_sel, top) ==
    Returned(RecLoop(movies_df, top, 1, key, plan,
                     [NoOutput(rs) EXCEPT !.simRead = TRUE, !.i_sel = i_sel, !.top = top]))

\* Lines 117-134, with i_sel computed.
RecommendFrom(rs, key, plan, movies_df, similarity_matrix, i_sel) ==
    IF ~RowExists(similarity_matrix, i_sel)
    THEN [NoOutput(rs) EXCEPT !.simRead = TRUE, !.i_sel = i_sel, !.raised = TRUE]
    ELSE Collect(rs, key, plan, movies_df, i_sel, TopIdxs(similarity_matrix, i_sel))

\* recommend without the early return of lines 113-114: no match falls
\* through to row 0.
recommend_NoEarlyReturn(rs, key, plan, selected_title, movies_df, similarity_matrix) ==
    RecommendFrom(rs, key, plan, movies_df, similarity_matrix,
                  IF Len(Matches(movies_df, selected_title)) = 0 THEN 0
                  ELSE SelectedIndex(movies_df, selected_title))

recommend(rs, key, plan, selected_title, movies_df, similarity_matrix) ==
    IF Len(Matches(movies_df, selected_title)) = 0 THEN NoOutput(rs)
    ELSE RecommendFrom(rs, key, plan, movies_df, similarity_matrix,
                       SelectedIndex(movies_df, selected_title))

\* ------------------------------------------------------------ the handlers
\* zip(cols, names, posters, ids), lines 225-226
Cards(names, posters, ids) ==
    [k \in 1..Len(names) |-> [name |-> names[k], poster |-> posters[k], mid |-> ids[k]]]

\* `page or []`
OrEmpty(v) == IF v.tag = "list" THEN v.items ELSE <<>>

\* The part of a run's record a handler fills in.
Outcome(kind) ==
    [handled |-> kind, arg |-> -1, raised |-> FALSE, notice |-> "none", cards |-> <<>>,
     names |-> <<>>, posters |-> <<>>, ids |-> <<>>, simRead |-> FALSE,
     i_sel |-> -1, top |-> <<>>, page1 |-> NoneV, page2 |-> NoneV]

\* Lines 222-226: what tab1 shows for the value r of recommend.
ShowRecommendations(selected, r) ==
    [rs  |-> r.rs,
     out |-> [Outcome("recommend") EXCEPT
                 !.arg = selected, !.raised = r.raised, !.names = r.names,
                 !.posters = r.posters, !.ids = r.ids, !.simRead = r.simRead,
                 !.i_sel = r.i_sel, !.top = r.top,
                 !.notice = IF ~r.raised /\ r.names = <<>> THEN "no_recs" ELSE "none",
                 !.cards = IF r.raised THEN <<>> ELSE Cards(r.names, r.posters, r.ids)]]

\* tab1, lines 220-226
RecommendHandler(rs, key, plan, selected, movies_df, similarity_matrix) ==
    ShowRecommendations(selected,
        recommend(rs, key, plan, selected, movies_df, similarity_matrix))

\* Lines 259-266: what tab2 shows for the two pages.
ShowResults(gid, f1, f2, results) ==
    [rs  |-> f2.rs,
     out |-> [Outcome("genre") EXCEPT
                 !.arg = gid, !.page1 = f1.val, !.page2 = f2.val,
                 !.notice = IF results = <<>> THEN "genre_fail" ELSE "none",
                 !.cards = Take(results, TOP_K)]]

\* Line 258 onwards.  An exception of a fetch leaves the handler.
AfterPage2(gid, f1, f2) ==
    IF f2.val = RaisedV
    THEN [rs  |-> f2.rs,
          out |-> [Outcome("genre") EXCEPT !.arg = gid, !.raised = TRUE,
                                           !.page1 = f1.val, !.page2 = f2.val]]
    ELSE ShowResults(gid, f1, f2, OrEmpty(f1.val) \o OrEmpty(f2.val))

AfterPage1(key, plan, gid, f1) ==
    IF f1.val = RaisedV
    THEN [rs  |-> f1.rs,
          out |-> [Outcome("genre") EXCEPT !.arg = gid, !.raised = TRUE, !.page1 = f1.val]]
    ELSE AfterPage2(gid, f1, fetch_by_genre(f1.rs, key, plan, gid, 2))

\* tab2, lines 254-266
GenreHandler(rs, key, plan, gid) ==
    AfterPage1(key, plan, gid, fetch_by_genre(rs, key, plan, gid, 1))

\* ------------------------------------------------------- artifact bootstrap
FileStates == {"absent", "good", "corrupt"}
DownloadOutcomes == {"good", "corrupt", "absent", "raise"}

\* ensure_from_drive, lines 192-198: the file after the call, whether a
\* download was made and whether gdown raised.  A file that exists is left alone.
ensure_from_drive(file, dl) ==
    IF file # "absent" THEN [file |-> file, downloaded |-> {}, raised |-> FALSE]
    ELSE [file |-> IF dl = "raise" THEN "absent" ELSE dl,
          downloaded |-> {"download"}, raised |-> dl = "raise"]

Named(e, name) == IF e.downloaded = {} THEN {} ELSE {name}

\* Lines 205-211: both artifacts are loaded inside one try; any failure to
\* open or unpickle shows st.error and st.stop() ends the run.
\* The load without st.stop(): the script goes on after the error.
LoadArtifacts_NoStop(mf, sf, downloaded) ==
    [movieFile |-> mf, simFile |-> sf, downloaded |-> downloaded,
     loaded |-> TRUE,
     diag |-> IF mf = "good" /\ sf = "good" THEN "none" ELSE "load_error"]

LoadArtifacts(mf, sf, downloaded) ==
    [movieFile |-> mf, simFile |-> sf, downloaded |-> downloaded,
     loaded |-> mf = "good" /\ sf = "good",
     diag |-> IF mf = "good" /\ sf = "good" THEN "none" ELSE "load_error"]

\* An exception of gdown is not caught: the run ends there with the
\* exception on the page.
Aborted(mf, sf, downloaded) ==
    [movieFile |-> mf, simFile |-> sf, downloaded |-> downloaded,
     loaded |-> FALSE, diag |-> "exception"]

\* Line 202 onwards, e1 being what line 201 did.
AfterFirst(sf, e1, e2) ==
    IF e1.raised THEN Aborted(e1.file, sf, Named(e1, "movie_dict.pkl"))
    ELSE IF e2.raised
    THEN Aborted(e1.file, e2.file, Named(e1, "movie_dict.pkl") \cup Named(e2, "similarity.pkl"))
    ELSE LoadArtifacts(e1.file, e2.file,
                       Named(e1, "movie_dict.pkl") \cup Named(e2, "similarity.pkl"))

\* Lines 201-211
Bootstrap(mf, sf, dl1, dl2) ==
    AfterFirst(sf, ensure_from_drive(mf, dl1), ensure_from_drive(sf, dl2))

\* -------------------------------------------------------------------- state
VARIABLES
    movieFile,      \* local movie_dict.pkl: "absent", "good" or "corrupt"
    simFile,        \* local similarity.pkl, likewise
    movies,         \* the catalog a good movie_dict.pkl unpickles to
    similarity,     \* the matrix a good similarity.pkl unpickles to
    TMDB_API_KEY,   \* whether the credential is configured
    posterCache,    \* st.cache_data of fetch_poster: movie_id -> entry
    genreCache,     \* st.cache_data of fetch_by_genre: <<genre_id, page>> -> entry
    run             \* what the latest script run did and showed

vars == <<movieFile, simFile, movies, similarity, TMDB_API_KEY, posterCache, genreCache, run>>

PosterIds == {100 + p : p \in 0..(MaxN - 1)}
GenreKeys == GENRES \X {1, 2}

NoRun ==
    [click |-> "none", absent |-> {}, downloaded |-> {}, loaded |-> FALSE, diag |-> "none",
     out |-> Outcome("none"), calls |-> <<>>]

\* The catalogs and matrices a process may be started with.
Catalogs(ns, dups, gaps, idcols) ==
    UNION { { MakeCatalog(n, d, g, c) : d \in dups, g \in {n} \cup (gaps \cap 0..n), c \in idcols }
            : n \in ns }

InitWith(files, catalogs, seeds, keys) ==
    /\ movieFile \in files
    /\ simFile \in files
    /\ movies \in catalogs
    /\ similarity \in {MakeSimilarity(Len(movies.titles), seed) : seed \in seeds}
    /\ TMDB_API_KEY \in keys
    /\ posterCache = [id \in PosterIds |-> Miss]
    /\ genreCache = [k \in GenreKeys |-> Miss]
    /\ run = NoRun

\* ------------------------------------------------------------------ actions
\* One run of the script: lines 201-211, then the handler of the clicked button.
\* What a run leaves behind: b is the bootstrap, h the handler's result.
Commit(click, b, h) ==
    /\ movieFile' = b.movieFile
    /\ simFile' = b.simFile
    /\ posterCache' = h.rs.posters
    /\ genreCache' = h.rs.genres
    /\ run' = [click |-> click,
               absent |-> (IF movieFile = "absent" THEN {"movie_dict.pkl"} ELSE {})
                           \cup (IF simFile = "absent" THEN {"similarity.pkl"} ELSE {}),
               downloaded |-> b.downloaded, loaded |-> b.loaded, diag |-> b.diag,
               out |-> h.out, calls |-> h.rs.calls]
    /\ UNCHANGED <<movies, similarity, TMDB_API_KEY>>

\* Lines 215-266: the handler of the clicked button, reached only when the
\* artifacts were loaded.
Handle(loaded, click, arg, plan, rs0) ==
    IF ~loaded \/ click = "none" THEN [rs |-> rs0, out |-> Outcome("none")]
    ELSE IF click = "recommend"
    THEN RecommendHandler(rs0, TMDB_API_KEY, plan, arg, movies, similarity)
    ELSE GenreHandler(rs0, TMDB_API_KEY, plan, arg)

Started(b, click, arg, plan) ==
    Commit(click, b, Handle(b.loaded, click, arg, plan,
                     [fails |-> plan.fails, posters |-> posterCache,
                      genres |-> genreCache, calls |-> <<>>]))

ScriptRun(click, arg, plan, dl1, dl2) ==
    Started(Bootstrap(movieFile, simFile, dl1, dl2), click, arg, plan)

\* gdown is only reached for a file that is absent.
Downloads(file) == IF file = "absent" THEN DownloadOutcomes ELSE {"good"}

\* A run in which no button was clicked.
Browse ==
    \E dl1 \in Downloads(movieFile), dl2 \in Downloads(simFile) :
        ScriptRun("none", -1, Healthy, dl1, dl2)

\* The Recommend button with `selected` in the select box.  The box offers
\* the catalog's titles (and gives None for an empty catalog); recommend is
\* run for every title of `titles`, in the catalog or not.
Recommend(titles, plans) ==
    \E selected \in titles, plan \in plans,
       dl1 \in Downloads(movieFile), dl2 \in Downloads(simFile) :
        ScriptRun("recommend", selected, plan, dl1, dl2)

\* The Show Genre button with a genre chosen.
ShowGenre(genres, plans) ==
    \E gid \in genres, plan \in plans,
       dl1 \in Downloads(movieFile), dl2 \in Downloads(simFile) :
        ScriptRun("genre", gid, plan, dl1, dl2)

\* Time passes: every cache entry ages, and one that reaches its time-to-live
\* is gone.
Aged(entry, ttl) ==
    IF entry.tag # "hit" THEN entry
    ELSE IF entry.age + 1 >= ttl THEN Miss
    ELSE [entry EXCEPT !.age = @ + 1]

Tick ==
    /\ \/ \E id \in PosterIds : posterCache[id] # Miss
       \/ \E k \in GenreKeys : genreCache[k] # Miss
    /\ posterCache' = [id \in PosterIds |-> Aged(posterCache[id], PosterTTL)]
    /\ genreCache' = [k \in GenreKeys |-> Aged(genreCache[k], GenreTTL)]
    /\ UNCHANGED <<movieFile, simFile, movies, similarity, TMDB_API_KEY, run>>

\* ----------------------------------------------------------- specifications
IdCols == {"movie_id", "id", "none"}

\* Both features against every failure of the service, with time passing.
\* A catalog of two records gives one recommendation, hence one poster
\* lookup, per run; a Show Genre run makes two calls.  Titles 0 and 1 are the
\* titles of these catalogs and title 2 is in none of them.
SmallSizes == {0, 1, 2}
SmallTitles == {0, 1, 2}
SmallCatalogs == Catalogs(SmallSizes, {2}, {0}, {"movie_id", "none"})

Init == InitWith({"good"}, SmallCatalogs, {0}, BOOLEAN)

Next ==
    \/ Recommend(SmallTitles, PosterPlans)
    \/ ShowGenre({28}, PosterPlans)
    \/ Tick

Spec == Init /\ [][Next]_vars

\* Show Genre against every behaviour of the service, with time passing.
InitGenre == InitWith({"good"}, Catalogs({1}, {1}, {}, {"movie_id"}), {0}, BOOLEAN)

NextGenre ==
    \/ ShowGenre(GENRES, NormalPlans)
    \/ Tick

SpecGenre == InitGenre /\ [][NextGenre]_vars

\* Start-up from every state of the two local files.
InitBoot == InitWith(FileStates, Catalogs({2}, {2}, {0}, IdCols), {0}, BOOLEAN)

NextBoot ==
    \/ Browse
    \/ Recommend(0..1, {Healthy})
    \/ ShowGenre(GENRES, {Healthy})

SpecBoot == InitBoot /\ [][NextBoot]_vars

\* recommend() over catalogs of every size up to MaxN, with duplicate titles
\* and with index labels that are not the positions.
InitRec == InitWith({"good"}, Catalogs(0..MaxN, {2, MaxN}, 0..MaxN, {"movie_id", "none"}),
                    0..MaxSeed, {TRUE})

NextRec == Recommend(Titles, {Healthy})

SpecRec == InitRec /\ [][NextRec]_vars

\* ------------------------------------------------------------------ claims
Present(df, title) == \E p \in 1..Len(df.titles) : df.titles[p] = title

\* The 0-based position of the first record whose title is `title`.
FirstPosition(df, title) ==
    (CHOOSE p \in 1..Len(df.titles) :
        /\ df.titles[p] = title
        /\ \A q \in 1..(p - 1) : df.titles[q] # title) - 1

\* The number of indices other than i that come before j when row `row` is
\* ordered by descending score and, among equal scores, by ascending index.
RankOf(row, i, j) ==
    Cardinality({k \in (DOMAIN row) \ {i} :
                    row[k] > row[j] \/ (row[k] = row[j] /\ k < j)})

\* The first min(TOP_K, N-1) indices of that order.
ExpectedTop(row, i) ==
    [r \in 1..Min(TOP_K, Cardinality(DOMAIN row) - 1) |->
        CHOOSE j \in (DOMAIN row) \ {i} : RankOf(row, i, j) = r - 1]

Recommended == run.out.handled = "recommend"
Matched == Recommended /\ Present(movies, run.out.arg)

\* C1: for a title in the catalog, with i the position of the first matching
\* record, recommend returns the titles (and, when the catalog has an
\* identifier column, the ids) of the first min(TOP_K, N-1) indices j # i in
\* descending order of similarity[i][j], equal scores in ascending index order.
C1_TopKOfFirstMatch ==
    Matched =>
        LET i == FirstPosition(movies, run.out.arg)
            expected == ExpectedTop(similarity[i], i)
        IN /\ ~run.out.raised
           /\ run.out.names = [r \in DOMAIN expected |-> movies.titles[expected[r] + 1]]
           /\ HasIdCol(movies) =>
                run.out.ids = [r \in DOMAIN expected |-> movies.ids[expected[r] + 1]]

\* C2: for a title in the catalog, no returned entry has the queried title.
C2_NeverTheQueriedTitle ==
    Matched => \A k \in 1..Len(run.out.names) : run.out.names[k] # run.out.arg

\* C3: for a title that equals no record's title, recommend returns three
\* empty lists without raising, reads no row of the matrix and makes no call
\* to the metadata service, and the page shows "No recommendations found.".
C3_NoMatchIsEmpty ==
    (Recommended /\ ~Present(movies, run.out.arg)) =>
        /\ run.out.names = <<>> /\ run.out.posters = <<>> /\ run.out.ids = <<>>
        /\ ~run.out.raised
        /\ ~run.out.simRead
        /\ run.calls = <<>>
        /\ run.out.notice = "no_recs"
        /\ run.out.cards = <<>>

C3_Witness ==
    /\ Recommended /\ ~Present(movies, run.out.arg)
    /\ Len(movies.titles) >= 2 /\ TMDB_API_KEY
    /\ HasIdCol(movies)
    /\ run.out.notice = "no_recs"

\* C4: two calls of recommend with the same title, catalog and matrix return
\* the same output whatever the service, the credential and the poster cache
\* are at each call, and no call changes the catalog or the matrix.  Stated
\* of two consecutive Recommend runs for the same title (the catalog and the
\* matrix are the same in both; time may pass between them).
C4_SameInputsSameOutput ==
    [][ /\ movies' = movies
        /\ similarity' = similarity
        /\ (/\ run' # run
            /\ run.out.handled = "recommend"
            /\ run'.out.handled = "recommend"
            /\ run'.out.arg = run.out.arg)
           => /\ run'.out.raised = run.out.raised
              /\ run'.out.names = run.out.names
              /\ run'.out.posters = run.out.posters
              /\ run'.out.ids = run.out.ids ]_vars

Calls == {run.calls[k] : k \in 1..Len(run.calls)}

\* C5: whatever a call to the metadata service ends in, fetch_poster returns
\* None (or the poster) and fetch_by_genre returns a list: neither raises.
C5_FetchNeverRaises ==
    \A c \in Calls :
        /\ c.result # RaisedV
        /\ c.fn = "fetch_by_genre" => c.result.tag = "list"

\* C6: Show Genre asks for pages 1 and 2 of the chosen genre, renders the
\* first min(TOP_K, |page1| + |page2|) items of page 1 followed by page 2,
\* shows the notice and no card exactly when both pages are empty, and never
\* raises.
C6_GenreBrowser ==
    run.out.handled = "genre" =>
        /\ ~run.out.raised
        /\ Len(run.calls) = 2
        /\ run.calls[1].arg = <<run.out.arg, 1>>
        /\ run.calls[2].arg = <<run.out.arg, 2>>
        /\ run.out.cards = Take(OrEmpty(run.out.page1) \o OrEmpty(run.out.page2), TOP_K)
        /\ (run.out.notice = "genre_fail")
             <=> (OrEmpty(run.out.page1) = <<>> /\ OrEmpty(run.out.page2) = <<>>)
        /\ run.out.notice = "genre_fail" => run.out.cards = <<>>

\* C7: a run downloads an artifact only if its file was absent; a handler runs
\* only in a run that loaded both artifacts, which needs both files good; a
\* run that could not load them shows a diagnostic and handles no click.
C7_NoHandlerWithoutArtifacts ==
    /\ run.downloaded \subseteq run.absent
    /\ run.out.handled # "none" => (run.loaded /\ movieFile = "good" /\ simFile = "good")
    /\ (run # NoRun /\ (movieFile # "good" \/ simFile # "good"))
          => (run.diag \in {"load_error", "exception"} /\ run.out.handled = "none")
    /\ run.loaded => run.diag = "none"

C7_Witness ==
    /\ run.click = "recommend"
    /\ run.downloaded = {"movie_dict.pkl", "similarity.pkl"}
    /\ movieFile = "good" /\ simFile = "corrupt"
    /\ run.diag = "load_error"
    /\ run.out.handled = "none"

NoData(v) == v = NoneV \/ v = ListV(<<>>)

C9_RowIsFirstPosition ==
    Matched => run.out.i_sel = FirstPosition(movies, run.out.arg)

\* C10: a fetch_poster call returns what an uncached call would return at
\* that moment; stated for its case of a healthy service: a lookup that an
\* uncached call would answer with the poster returns the poster, also after
\* an earlier lookup of the identifier failed.
C10_HealthyLookupGivesPoster ==
    \A c \in Calls :
        (c.fn = "fetch_poster" /\ c.fresh.tag = "url") => c.result = c.fresh

====
